---- MODULE Spec2Model ----
(***************************************************************************)
(* Model of muddery's world-data editing services                          *)
(* (muddery/worlddata/services/data_edit.py): save_object_form,            *)
(* delete_object and update_object_key, running against the record store.  *)
(*                                                                         *)
(* The record store, the typeclass registry and the object-index counter   *)
(* live outside the two modelled source files; they are modelled from the  *)
(* design document.  Django's transaction.atomic() is modelled as a        *)
(* private working copy of the tables that replaces the committed tables   *)
(* on commit and is discarded on rollback; statements outside an atomic    *)
(* block commit one by one.                                                *)
(***************************************************************************)
EXTENDS Integers, Sequences, FiniteSets, TLC

\* Bound: the number of service calls started in one behaviour.
MaxCalls == 2

\* Request-serving processes.  Spec runs p1 alone; ConcSpec runs both.
Procs == {"p1", "p2"}

(***************************************************************************)
(* Typeclass registry and schema                                           *)
(***************************************************************************)
Types == {"OBJECT", "AREA", "ROOM", "EXIT", "WORLD_OBJECT", "WORLD_NPC"}

Tables == {"objects", "world_areas", "world_rooms", "world_exits",
           "world_objects", "world_npcs"}

\* The table order used wherever the code walks a set of tables.
TableOrder == <<"objects", "world_areas", "world_rooms", "world_exits",
                "world_objects", "world_npcs">>

RowFields == {"id", "key", "typeclass", "name", "location", "destination",
              "background", "width", "height", "position"}

\* The columns that hold integers; all others hold strings.
IntFields == {"id", "width", "height"}

\* The columns a table's form carries (the primary key "id" is never edited).
Cols(t) ==
    CASE t = "objects"       -> {"key", "typeclass", "name"}
      [] t = "world_areas"   -> {"key", "name", "background", "width", "height"}
      [] t = "world_rooms"   -> {"key", "location", "position"}
      [] t = "world_exits"   -> {"key", "location", "destination"}
      [] t = "world_objects" -> {"key", "location"}
      [] t = "world_npcs"    -> {"key", "location"}

\* TYPECLASS(key).model_name: the table a typeclass adds.
model_name(tc) ==
    CASE tc = "OBJECT"       -> "objects"
      [] tc = "AREA"         -> "world_areas"
      [] tc = "ROOM"         -> "world_rooms"
      [] tc = "EXIT"         -> "world_exits"
      [] tc = "WORLD_OBJECT" -> "world_objects"
      [] tc = "WORLD_NPC"    -> "world_npcs"

\* issubclass(TYPECLASS(tc), TYPECLASS(base)): OBJECT is the root of the forest.
issubclass(tc, base) == tc = base \/ base = "OBJECT"

\* typeclass.get_models(): the ordered tables that store one entity.
get_models(tc) ==
    IF tc = "OBJECT" THEN <<"objects">> ELSE <<"objects", model_name(tc)>>

\* TYPECLASS_SET.get_group(base): the candidate typeclasses under base.
get_group(base) == {tc \in Types : issubclass(tc, base)}

(***************************************************************************)
(* Record store                                                            *)
(***************************************************************************)
NoRec == [id |-> 0, key |-> "", typeclass |-> "", name |-> "",
          location |-> "", destination |-> "",
          background |-> "", width |-> 0, height |-> 0, position |-> ""]

Row(i, k, tc, n, loc, dst) ==
    [id |-> i, key |-> k, typeclass |-> tc, name |-> n,
     location |-> loc, destination |-> dst,
     background |-> "", width |-> 0, height |-> 0, position |-> ""]

EmptyDb == [t \in Tables |-> {}]

Max(S) == IF S = {} THEN 0 ELSE CHOOSE x \in S : \A y \in S : y <= x

\* The primary key the store assigns to a new row.
NewId(rows) == Max({r.id : r \in rows}) + 1

\* general_query_mapper.get_record_by_key: the row, or NoRec for
\* ObjectDoesNotExist.
get_record_by_key(d, t, k) ==
    IF \E r \in d[t] : r.key = k
    THEN CHOOSE r \in d[t] : r.key = k
    ELSE NoRec

\* general_query_mapper.delete_record_by_key: absent rows raise
\* ObjectDoesNotExist, which delete_object swallows.
delete_record_by_key(rows, k) == {r \in rows : r.key # k}

\* filter_records(table, field=old).update(field=new)
update_where(rows, f, old, new) ==
    {IF r[f] = old THEN [r EXCEPT ![f] = new] ELSE r : r \in rows}

\* The declared unique business key: no other row of the table has the key.
UniqueKey(rows, rec) == \A r \in rows : r.id # rec.id => r.key # rec.key

(***************************************************************************)
(* Forms                                                                   *)
(***************************************************************************)
\* The record a form writes: the instance it was bound to (or a new row)
\* with the submitted columns set.
FormRecord(form, rows) ==
    LET base == IF form.instance.id # 0 THEN form.instance
                ELSE [NoRec EXCEPT !.id = NewId(rows)]
    IN  [f \in RowFields |->
            IF f \in (DOMAIN form.values) \cap Cols(form.table)
            THEN form.values[f] ELSE base[f]]

\* form.is_valid(): the field validators' verdict (ok), the required key,
\* and the unique check against the stored rows.
is_valid(form, rows, ok) ==
    /\ ok
    /\ "key" \in DOMAIN form.values
    /\ form.values["key"] # ""
    /\ UniqueKey(rows, FormRecord(form, rows))

\* form.save(): insert the row, or replace the row with the same primary key.
FormSave(form, rows) ==
    LET rec == FormRecord(form, rows)
    IN  {r \in rows : r.id # rec.id} \cup {rec}

(***************************************************************************)
(* State                                                                   *)
(***************************************************************************)
VARIABLES
    db,            \* the committed tables: what any reader sees
    object_index,  \* SYSTEM_DATA's object-index counter
    tx,            \* the open transaction.atomic() block, if any
    st,            \* per process: the running call, its locals and position
    calls,         \* service calls started so far
    minted,        \* the synthesized keys, in order of allocation
    ex             \* the exporter: its call, its files and its archive

vars == <<db, object_index, tx, st, calls, minted, ex>>

NoTx == [owner |-> "", db |-> EmptyDb]

Idle == [op |-> "idle", pc |-> "idle", tables |-> <<>>, obj_typeclass |-> "",
         obj_key |-> "", new_key |-> "", old_key |-> "", forms |-> <<>>,
         del_tables |-> {}, stmts |-> <<>>, i |-> 0, result |-> "",
         invalid |-> 0, failed |-> 0, submitted |-> <<>>,
         base_typeclass |-> "", answer |-> <<>>,
         area |-> <<>>, rooms |-> <<>>,
         pre |-> EmptyDb, pre_index |-> 0, vis |-> 0]

\* The exporter between calls: no temporary file, no archive.
ExIdle == [op |-> "idle", pc |-> "idle", filename |-> "", file_type |-> "",
           models |-> <<>>, m |-> 0, temp_exists |-> FALSE, temp_lines |-> <<>>,
           archive_open |-> FALSE, entries |-> <<>>, pending |-> "",
           raised |-> "", cleanup_raised |-> FALSE,
           written |-> FALSE, lines |-> <<>>, rows |-> {}, again |-> <<>>]

\* The world data the editor starts from.
InitDb ==
    [t \in Tables |->
        CASE t = "objects" ->
                {Row(1, "a1", "AREA", "n0", "", ""),
                 Row(2, "a2", "AREA", "n0", "", ""),
                 Row(3, "r1", "ROOM", "n0", "", ""),
                 Row(4, "r2", "ROOM", "n0", "", ""),
                 Row(5, "e1", "EXIT", "n0", "", ""),
                 Row(6, "e2", "EXIT", "n0", "", ""),
                 Row(7, "o1", "WORLD_OBJECT", "n0", "", ""),
                 Row(8, "n1", "WORLD_NPC", "n0", "", "")}
          [] t = "world_areas" ->
                {Row(1, "a1", "", "n0", "", ""), Row(2, "a2", "", "n0", "", "")}
          [] t = "world_rooms" ->
                {Row(1, "r1", "", "", "a1", ""), Row(2, "r2", "", "", "a2", "")}
          [] t = "world_exits" ->
                {Row(1, "e1", "", "", "r1", "r2"), Row(2, "e2", "", "", "r2", "r1")}
          [] t = "world_objects" ->
                {Row(1, "o1", "", "", "r1", "")}
          [] t = "world_npcs" ->
                {Row(1, "n1", "", "", "r1", "")}]

Init ==
    /\ db = InitDb
    /\ object_index = 0
    /\ tx = NoTx
    /\ st = [p \in Procs |-> Idle]
    /\ calls = 0
    /\ minted = <<>>
    /\ ex = ExIdle

(***************************************************************************)
(* Submitted forms: the inputs of save_object_form                         *)
(***************************************************************************)
Absent == "<absent>"

\* The keys a table-group may submit; Absent stands for a group without one.
KeyIn == {Absent, "", "o1", "k9"}

\* The typeclasses a save is called with: the root, and two subtypes.
SaveTypeIn == {"OBJECT", "ROOM", "WORLD_OBJECT"}

\* The current key a save is called with ("" for a new entity).
ObjKeyIn == {"", "r1", "o1"}

Values(t, tc, k) ==
    [f \in (IF k = Absent THEN Cols(t) \ {"key"} ELSE Cols(t)) |->
        CASE f = "key"         -> k
          [] f = "typeclass"   -> tc
          [] f = "name"        -> "n1"
          [] f = "location"    -> (IF t = "world_rooms" THEN "a1" ELSE "r1")
          [] f = "destination" -> "r2"
          [] f = "background"  -> ""
          [] f \in {"width", "height"} -> 0
          [] f = "position"    -> ""]

\* The table-groups of one submission for typeclass tc, keys drawn from keys.
TablesIn(tc, keys) ==
    LET ms == get_models(tc)
    IN  {[j \in 1..Len(ms) |-> [table |-> ms[j], values |-> Values(ms[j], tc, ks[j])]] :
            ks \in [1..Len(ms) -> keys]}

(***************************************************************************)
(* save_object_form                                                        *)
(***************************************************************************)
\* new_key = tables[0]["values"]["key"], or obj_key on KeyError.
FirstKey(tables, obj_key) ==
    IF "key" \in DOMAIN tables[1].values THEN tables[1].values["key"] ELSE obj_key

\* "if not new_key": the guard of key synthesis.
NeedsNewKey(new_key) == new_key = ""

\* Faulty variant of AutoKey: the index is left out of the key.
AutoKeyNoIndex(obj_typeclass, index) == obj_typeclass \o "_auto_"

\* "%s_auto_%s" % (obj_typeclass, index)
AutoKey(obj_typeclass, index) == obj_typeclass \o "_auto_" \o ToString(index)

\* Faulty variant of SetKeys: only the first table-group gets the key.
SetKeysFirstOnly(tables, new_key) ==
    [j \in 1..Len(tables) |->
        IF j # 1 THEN tables[j]
        ELSE [tables[j] EXCEPT !.values =
                [f \in (DOMAIN tables[j].values) \cup {"key"} |->
                    IF f = "key" THEN new_key ELSE tables[j].values[f]]]]

\* for table in tables: table["values"]["key"] = new_key
SetKeys(tables, new_key) ==
    [j \in 1..Len(tables) |->
        [tables[j] EXCEPT !.values =
            [f \in (DOMAIN tables[j].values) \cup {"key"} |->
                IF f = "key" THEN new_key ELSE tables[j].values[f]]]]

\* SYSTEM_DATA.get_object_index(): hands out the counter's value and
\* advances the counter, in one indivisible step.
NextObjectIndex(index) == index + 1

\* Faulty variant of BuildForm: the stored record is never looked up.
BuildFormUnbound(d, table, obj_key) ==
    [table |-> table.table, values |-> table.values, instance |-> NoRec]

\* The form of one table-group: bound to the record stored under obj_key
\* when there is one, unbound otherwise.
BuildForm(d, table, obj_key) ==
    [table |-> table.table, values |-> table.values,
     instance |-> IF obj_key # "" THEN get_record_by_key(d, table.table, obj_key)
                  ELSE NoRec]

\* The first form that is not valid, 0 when all are; bad is the form the
\* field validators reject (0: none).
FirstInvalid(forms, d, bad) ==
    LET inv == {j \in 1..Len(forms) : ~is_valid(forms[j], d[forms[j].table], j # bad)}
    IN  IF inv = {} THEN 0 ELSE CHOOSE j \in inv : \A k \in inv : j <= k

\* Faulty variant of Rollback: the writes made so far are kept.
RollbackKeepsWrites(committed, working) == working

\* Leaving the atomic block on an exception: the committed tables stay.
Rollback(committed, working) == committed

\* Lines 198-212: the empty check, the effective key, key synthesis.
SaveCallWith(p, keys, objkeys) ==
    /\ st[p].pc = "idle"
    /\ calls < MaxCalls
    /\ calls' = calls + 1
    /\ \E tc \in SaveTypeIn, ok \in objkeys, empty \in BOOLEAN :
         \E tb \in (IF empty THEN {<<>>} ELSE TablesIn(tc, keys)) :
           LET call == [Idle EXCEPT !.op = "save", !.obj_typeclass = tc,
                                    !.obj_key = ok, !.tables = tb,
                                    !.submitted = tb,
                                    !.pre = db, !.pre_index = object_index]
           IN  IF Len(tb) = 0
               THEN /\ st' = [st EXCEPT ![p] =
                                [call EXCEPT !.pc = "done", !.result = "invalid_form"]]
                    /\ UNCHANGED <<object_index, minted>>
               ELSE IF NeedsNewKey(FirstKey(tb, ok))
               THEN LET nk == AutoKey(tc, object_index)
                    IN  /\ object_index' = NextObjectIndex(object_index)
                        /\ minted' = Append(minted, [key |-> nk, index |-> object_index,
                                                     typeclass |-> tc, by |-> p])
                        /\ st' = [st EXCEPT ![p] =
                                    [call EXCEPT !.pc = "forms", !.new_key = nk,
                                                 !.tables = SetKeys(tb, nk)]]
               ELSE /\ st' = [st EXCEPT ![p] =
                                [call EXCEPT !.pc = "forms", !.new_key = FirstKey(tb, ok)]]
                    /\ UNCHANGED <<object_index, minted>>
    /\ UNCHANGED <<db, tx, ex>>

SaveCall(p) == SaveCallWith(p, KeyIn, ObjKeyIn)

\* Lines 214-233: one form per table-group.
SaveForms(p) ==
    /\ st[p].pc = "forms"
    /\ st' = [st EXCEPT ![p].pc = "check",
                        ![p].forms = [j \in 1..Len(st[p].tables) |->
                                        BuildForm(db, st[p].tables[j], st[p].obj_key)]]
    /\ UNCHANGED <<db, object_index, tx, calls, minted, ex>>

\* The tables after the first n forms have been saved.
RECURSIVE SavedUpTo(_, _, _)
SavedUpTo(d, forms, n) ==
    IF n = 0 THEN d
    ELSE LET d1 == SavedUpTo(d, forms, n - 1)
         IN  [d1 EXCEPT ![forms[n].table] = FormSave(forms[n], @)]

\* Faulty variant of SaveCheck: each form is saved as soon as it is found
\* valid, so the forms before the first invalid one are already stored.
SaveCheckEager(p) ==
    /\ st[p].pc = "check"
    /\ \E bad \in 0..Len(st[p].forms) :
         LET e == FirstInvalid(st[p].forms, db, bad)
         IN  /\ st' = [st EXCEPT ![p].invalid = e,
                                 ![p].pc = IF e = 0 THEN "begin" ELSE "done",
                                 ![p].result = IF e = 0 THEN "" ELSE "invalid_form"]
             /\ db' = IF e = 0 THEN db ELSE SavedUpTo(db, st[p].forms, e - 1)
    /\ UNCHANGED <<object_index, tx, calls, minted, ex>>

\* Lines 235-238: every form is checked before anything is saved.
SaveCheck(p) ==
    /\ st[p].pc = "check"
    /\ \E bad \in 0..Len(st[p].forms) :
         LET e == FirstInvalid(st[p].forms, db, bad)
         IN  st' = [st EXCEPT ![p].invalid = e,
                              ![p].pc = IF e = 0 THEN "begin" ELSE "done",
                              ![p].result = IF e = 0 THEN "" ELSE "invalid_form"]
    /\ UNCHANGED <<db, object_index, tx, calls, minted, ex>>

\* Line 241: entering transaction.atomic().
SaveBegin(p) ==
    /\ st[p].pc = "begin"
    /\ tx.owner = ""
    /\ tx' = [owner |-> p, db |-> db]
    /\ st' = [st EXCEPT ![p].pc = "write", ![p].i = 1]
    /\ UNCHANGED <<db, object_index, calls, minted, ex>>

\* Lines 242-243: form.save() of the next form; a failed write (a store
\* error, or the unique key violated) leaves the block by exception.
SaveWrite(p) ==
    /\ st[p].pc = "write"
    /\ tx.owner = p
    /\ st[p].i <= Len(st[p].forms)
    /\ \E fail \in BOOLEAN :
         LET form == st[p].forms[st[p].i]
             rows == tx.db[form.table]
         IN  IF fail \/ ~UniqueKey(rows, FormRecord(form, rows))
             THEN /\ db' = Rollback(db, tx.db)
                  /\ tx' = NoTx
                  /\ st' = [st EXCEPT ![p].pc = "done", ![p].failed = st[p].i,
                                      ![p].result = "TransactionFailure",
                                      ![p].vis = IF db' # db THEN @ + 1 ELSE @]
             ELSE /\ tx' = [tx EXCEPT !.db[form.table] = FormSave(form, rows)]
                  /\ st' = [st EXCEPT ![p].i = @ + 1]
                  /\ UNCHANGED db
    /\ UNCHANGED <<object_index, calls, minted, ex>>

\* Leaving the atomic block normally commits; line 245 returns new_key.
SaveCommit(p) ==
    /\ st[p].pc = "write"
    /\ tx.owner = p
    /\ st[p].i > Len(st[p].forms)
    /\ db' = tx.db
    /\ tx' = NoTx
    /\ st' = [st EXCEPT ![p].pc = "done", ![p].result = "ok",
                        ![p].vis = IF tx.db # db THEN @ + 1 ELSE @]
    /\ UNCHANGED <<object_index, calls, minted, ex>>

\* The call has returned or raised; the process takes the next request.
Return(p) ==
    /\ st[p].pc = "done"
    /\ st' = [st EXCEPT ![p] = Idle]
    /\ UNCHANGED <<db, object_index, tx, calls, minted, ex>>

(***************************************************************************)
(* delete_object                                                           *)
(***************************************************************************)
\* The keys delete_object is called with; k9 is stored nowhere at first.
DelKeyIn == {"r1", "o1", "k9"}

\* Faulty variant of DeleteTables: only the base typeclass's own tables.
DeleteTablesOfBase(base_typeclass) ==
    {get_models(base_typeclass)[j] : j \in 1..Len(get_models(base_typeclass))}

\* Lines 287-290: the union of the tables of every typeclass of the group.
DeleteTables(base_typeclass) ==
    UNION {{get_models(tc)[j] : j \in 1..Len(get_models(tc))} :
              tc \in get_group(base_typeclass)}

\* The table the loop of line 293 visits next.
NextTable(tables) ==
    TableOrder[CHOOSE j \in 1..Len(TableOrder) :
                  /\ TableOrder[j] \in tables
                  /\ \A k \in 1..(j - 1) : TableOrder[k] \notin tables]

\* Lines 282-290: the stored typeclass when no base is given (the lookup
\* raises for a key the root table does not hold), then the tables.
DeleteCall(p) ==
    /\ st[p].pc = "idle"
    /\ calls < MaxCalls
    /\ calls' = calls + 1
    /\ \E k \in DelKeyIn, base \in Types \cup {""} :
         LET call   == [Idle EXCEPT !.op = "delete", !.obj_key = k,
                                    !.obj_typeclass = base,
                                    !.pre = db, !.pre_index = object_index]
             record == get_record_by_key(db, model_name("OBJECT"), k)
         IN  IF base = "" /\ record.id = 0
             THEN st' = [st EXCEPT ![p] =
                            [call EXCEPT !.pc = "done", !.result = "NotFound"]]
             ELSE st' = [st EXCEPT ![p] =
                            [call EXCEPT !.pc = "dbegin",
                                         !.del_tables =
                                            DeleteTables(IF base = "" THEN record.typeclass
                                                         ELSE base)]]
    /\ UNCHANGED <<db, object_index, tx, minted, ex>>

\* Line 292: entering transaction.atomic().
DeleteBegin(p) ==
    /\ st[p].pc = "dbegin"
    /\ tx.owner = ""
    /\ tx' = [owner |-> p, db |-> db]
    /\ st' = [st EXCEPT ![p].pc = "dloop"]
    /\ UNCHANGED <<db, object_index, calls, minted, ex>>

\* Lines 293-297: delete the key's record from the next table.
DeleteRecord(p) ==
    /\ st[p].pc = "dloop"
    /\ tx.owner = p
    /\ st[p].del_tables # {}
    /\ LET t == NextTable(st[p].del_tables)
       IN  /\ tx' = [tx EXCEPT !.db[t] = delete_record_by_key(@, st[p].obj_key)]
           /\ st' = [st EXCEPT ![p].del_tables = @ \ {t}]
    /\ UNCHANGED <<db, object_index, calls, minted, ex>>

\* Leaving the atomic block commits the deletes.
DeleteCommit(p) ==
    /\ st[p].pc = "dloop"
    /\ tx.owner = p
    /\ st[p].del_tables = {}
    /\ db' = tx.db
    /\ tx' = NoTx
    /\ st' = [st EXCEPT ![p].pc = "done", ![p].result = "ok",
                        ![p].vis = IF tx.db # db THEN @ + 1 ELSE @]
    /\ UNCHANGED <<object_index, calls, minted, ex>>

(***************************************************************************)
(* update_object_key                                                       *)
(***************************************************************************)
\* The old keys update_object_key is called with.
OldKeyIn == {"a1", "r1", "o1"}

\* Faulty variant of CascadeStmts: an area's rename also rewrites exits.
CascadeStmtsAreaExits(typeclass_key) ==
    IF issubclass(typeclass_key, "AREA")
    THEN <<[table |-> model_name("ROOM"), field |-> "location"],
           [table |-> model_name("EXIT"), field |-> "location"]>>
    ELSE IF issubclass(typeclass_key, "ROOM")
    THEN <<[table |-> model_name("EXIT"), field |-> "location"],
           [table |-> model_name("EXIT"), field |-> "destination"],
           [table |-> model_name("WORLD_OBJECT"), field |-> "location"],
           [table |-> model_name("WORLD_NPC"), field |-> "location"]>>
    ELSE <<>>

\* Faulty variant of CascadeStmts: a room's rename skips exit destinations.
CascadeStmtsNoDestination(typeclass_key) ==
    IF issubclass(typeclass_key, "AREA")
    THEN <<[table |-> model_name("ROOM"), field |-> "location"]>>
    ELSE IF issubclass(typeclass_key, "ROOM")
    THEN <<[table |-> model_name("EXIT"), field |-> "location"],
           [table |-> model_name("WORLD_OBJECT"), field |-> "location"],
           [table |-> model_name("WORLD_NPC"), field |-> "location"]>>
    ELSE <<>>

\* Lines 339-360: the update statements, in the order the code issues them.
CascadeStmts(typeclass_key) ==
    IF issubclass(typeclass_key, "AREA")
    THEN <<[table |-> model_name("ROOM"), field |-> "location"]>>
    ELSE IF issubclass(typeclass_key, "ROOM")
    THEN <<[table |-> model_name("EXIT"), field |-> "location"],
           [table |-> model_name("EXIT"), field |-> "destination"],
           [table |-> model_name("WORLD_OBJECT"), field |-> "location"],
           [table |-> model_name("WORLD_NPC"), field |-> "location"]>>
    ELSE <<>>

\* The call: update_object_key(typeclass_key, old_key, new_key).
UpdateKeyCall(p) ==
    /\ st[p].pc = "idle"
    /\ calls < MaxCalls
    /\ calls' = calls + 1
    /\ \E tc \in Types, old \in OldKeyIn :
         st' = [st EXCEPT ![p] =
                  [Idle EXCEPT !.op = "update_key", !.pc = "uk", !.obj_typeclass = tc,
                               !.old_key = old, !.new_key = "k9", !.i = 1,
                               !.stmts = CascadeStmts(tc),
                               !.pre = db, !.pre_index = object_index]]
    /\ UNCHANGED <<db, object_index, tx, minted, ex>>

\* One filter(...).update(...) statement; outside any atomic block it is
\* committed as soon as it has run.
UpdateKeyStmt(p) ==
    /\ st[p].pc = "uk"
    /\ tx.owner = ""
    /\ st[p].i <= Len(st[p].stmts)
    /\ LET s == st[p].stmts[st[p].i]
       IN  db' = [db EXCEPT ![s.table] =
                     update_where(@, s.field, st[p].old_key, st[p].new_key)]
    /\ st' = [st EXCEPT ![p].i = @ + 1,
                        ![p].vis = IF db' # db THEN @ + 1 ELSE @]
    /\ UNCHANGED <<object_index, tx, calls, minted, ex>>

UpdateKeyReturn(p) ==
    /\ st[p].pc = "uk"
    /\ st[p].i > Len(st[p].stmts)
    /\ st' = [st EXCEPT ![p].pc = "done", ![p].result = "ok"]
    /\ UNCHANGED <<db, object_index, tx, calls, minted, ex>>

(***************************************************************************)
(* query_form and query_object_form                                        *)
(***************************************************************************)
\* The arguments query_object_form is called with; NOPE is no typeclass.
QueryBaseIn == {"OBJECT", "ROOM", "NOPE"}

QueryTypeIn == {"", "ROOM", "WORLD_OBJECT", "NOPE"}

QueryKeyIn == {"", "r1", "o1", "k9"}

\* query_form(table_name, key=...): one entry per field, "id" first.  A
\* record that cannot be fetched is swallowed (lines 38-47) and the empty
\* form is described: has_value is FALSE where the code sets no "value".
query_form(d, table_name, with_key, key) ==
    LET record == IF with_key THEN get_record_by_key(d, table_name, key) ELSE NoRec
    IN  [f \in {"id"} \cup Cols(table_name) |->
            IF f = "id"
            THEN [type |-> "Hidden", has_value |-> TRUE,
                  value |-> IF record.id # 0 THEN ToString(record.id) ELSE "",
                  choices |-> {}]
            ELSE [type |-> IF f \in {"location", "destination"} THEN "Location"
                           ELSE "TextInput",
                  has_value |-> record.id # 0,
                  value |-> IF record.id = 0 THEN ""
                            ELSE IF f \in IntFields THEN ToString(record[f])
                            ELSE record[f],
                  choices |-> {}]]

\* Faulty variant of ResolveTypeclass: the stored typeclass is not looked up.
ResolveTypeclassBase(d, base_typeclass, obj_typeclass, obj_key) ==
    IF obj_typeclass # "" THEN obj_typeclass ELSE base_typeclass

\* Lines 147-155: the given typeclass, else the one stored under obj_key in
\* the root table ("<NotFound>" when the lookup raises), else the base.
ResolveTypeclass(d, base_typeclass, obj_typeclass, obj_key) ==
    IF obj_typeclass # "" THEN obj_typeclass
    ELSE IF obj_key # ""
    THEN LET record == get_record_by_key(d, model_name("OBJECT"), obj_key)
         IN  IF record.id = 0 THEN "<NotFound>" ELSE record.typeclass
    ELSE base_typeclass

\* Lines 162-170: one {table, fields} group per table of the typeclass.
QueryForms(d, typeclass, obj_key) ==
    [j \in 1..Len(get_models(typeclass)) |->
        [table |-> get_models(typeclass)[j],
         fields |-> query_form(d, get_models(typeclass)[j], obj_key # "", obj_key)]]

\* Lines 172-180: the typeclass field of the first group becomes the selector.
AddTypeclasses(forms, obj_typeclass, candidate_typeclasses) ==
    IF Len(forms) > 0 /\ "typeclass" \in DOMAIN forms[1].fields
    THEN [forms EXCEPT ![1].fields["typeclass"] =
            [type |-> "Select", has_value |-> TRUE, value |-> obj_typeclass,
             choices |-> {[key |-> k, label |-> k \o " (" \o k \o ")"] :
                             k \in candidate_typeclasses}]]
    ELSE forms

\* query_object_form(base_typeclass, obj_typeclass, obj_key): no side effects.
QueryCall(p) ==
    /\ st[p].pc = "idle"
    /\ calls < MaxCalls
    /\ calls' = calls + 1
    /\ \E base \in QueryBaseIn, tc \in QueryTypeIn, k \in QueryKeyIn :
         LET call == [Idle EXCEPT !.op = "query", !.pc = "done",
                                  !.base_typeclass = base, !.obj_typeclass = tc,
                                  !.obj_key = k, !.pre = db,
                                  !.pre_index = object_index]
             candidate_typeclasses == get_group(base)
             typeclass == ResolveTypeclass(db, base, tc, k)
         IN  IF candidate_typeclasses = {}
             THEN st' = [st EXCEPT ![p] = [call EXCEPT !.result = "no_table"]]
             ELSE IF typeclass = "<NotFound>"
             THEN st' = [st EXCEPT ![p] = [call EXCEPT !.result = "NotFound"]]
             ELSE IF typeclass \notin Types
             THEN st' = [st EXCEPT ![p] = [call EXCEPT !.result = "no_table"]]
             ELSE st' = [st EXCEPT ![p] =
                           [call EXCEPT !.result = "ok",
                                        !.answer = AddTypeclasses(
                                            QueryForms(db, typeclass, k),
                                            typeclass, candidate_typeclasses)]]
    /\ UNCHANGED <<db, object_index, tx, minted, ex>>

(***************************************************************************)
(* save_map_positions                                                      *)
(***************************************************************************)
\* Bound: the number of rooms one save_map_positions call lists.
MaxRooms == 2

\* The areas a call names; k9 is no stored area.
AreaIn == {[key |-> k, background |-> "bg", width |-> 3, height |-> 4] :
              k \in {"a1", "k9"}}

\* The positions a room comes with: none, one coordinate, two, three.
PositionIn == {<<>>, <<1>>, <<1, 2>>, <<3, 4, 5>>}

\* The rooms a call lists; k9 is no stored room.
RoomIn == {[key |-> k, position |-> pos] : k \in {"r1", "k9"}, pos \in PositionIn}

RoomsIn == UNION {[1..n -> RoomIn] : n \in 0..MaxRooms}

\* Faulty variant of MapPosition: two coordinates are not enough.
MapPositionOverTwo(position) ==
    IF Len(position) > 2
    THEN "(" \o ToString(position[1]) \o "," \o ToString(position[2]) \o ")"
    ELSE ""

\* Lines 268-270: "(x,y)" of the first two coordinates, or the empty string.
MapPosition(position) ==
    IF Len(position) > 1
    THEN "(" \o ToString(position[1]) \o "," \o ToString(position[2]) \o ")"
    ELSE ""

\* save_map_positions(area, rooms) is called, its arguments drawn from the
\* given sets.
MapCallWith(p, areas, roomlists) ==
    /\ st[p].pc = "idle"
    /\ calls < MaxCalls
    /\ calls' = calls + 1
    /\ \E area \in areas, rooms \in roomlists :
         st' = [st EXCEPT ![p] =
                  [Idle EXCEPT !.op = "map", !.pc = "mbegin", !.area = area,
                               !.rooms = rooms, !.pre = db,
                               !.pre_index = object_index]]
    /\ UNCHANGED <<db, object_index, tx, minted, ex>>

MapCall(p) == MapCallWith(p, AreaIn, RoomsIn)

\* Line 256: entering transaction.atomic().
MapBegin(p) ==
    /\ st[p].pc = "mbegin"
    /\ tx.owner = ""
    /\ tx' = [owner |-> p, db |-> db]
    /\ st' = [st EXCEPT ![p].pc = "marea"]
    /\ UNCHANGED <<db, object_index, calls, minted, ex>>

\* Lines 258-264: the area's record is looked up, set, cleaned and saved; a
\* failed lookup or full_clean leaves the block by exception.
MapArea(p) ==
    /\ st[p].pc = "marea"
    /\ tx.owner = p
    /\ \E clean \in BOOLEAN :
         LET area   == st[p].area
             t      == model_name("AREA")
             record == get_record_by_key(tx.db, t, area.key)
         IN  IF record.id = 0 \/ ~clean
             THEN /\ db' = Rollback(db, tx.db)
                  /\ tx' = NoTx
                  /\ st' = [st EXCEPT ![p].pc = "done",
                                      ![p].result = IF record.id = 0 THEN "DoesNotExist"
                                                    ELSE "ValidationError"]
             ELSE /\ tx' = [tx EXCEPT !.db[t] =
                              (@ \ {record}) \cup
                                {[record EXCEPT !.background = area.background,
                                                !.width = area.width,
                                                !.height = area.height]}]
                  /\ st' = [st EXCEPT ![p].pc = "mrooms", ![p].i = 1]
                  /\ UNCHANGED db
    /\ UNCHANGED <<object_index, calls, minted, ex>>

\* Lines 267-275: the next room's position is formatted and saved; a failed
\* lookup or full_clean leaves the block by exception.
MapRoom(p) ==
    /\ st[p].pc = "mrooms"
    /\ tx.owner = p
    /\ st[p].i <= Len(st[p].rooms)
    /\ \E clean \in BOOLEAN :
         LET room     == st[p].rooms[st[p].i]
             position == MapPosition(room.position)
             t        == model_name("ROOM")
             record   == get_record_by_key(tx.db, t, room.key)
         IN  IF record.id = 0 \/ ~clean
             THEN /\ db' = Rollback(db, tx.db)
                  /\ tx' = NoTx
                  /\ st' = [st EXCEPT ![p].pc = "done", ![p].failed = st[p].i,
                                      ![p].result = IF record.id = 0 THEN "DoesNotExist"
                                                    ELSE "ValidationError"]
             ELSE /\ tx' = [tx EXCEPT !.db[t] =
                              (@ \ {record}) \cup {[record EXCEPT !.position = position]}]
                  /\ st' = [st EXCEPT ![p].i = @ + 1]
                  /\ UNCHANGED db
    /\ UNCHANGED <<object_index, calls, minted, ex>>

\* Leaving the atomic block normally commits the area and the rooms.
MapCommit(p) ==
    /\ st[p].pc = "mrooms"
    /\ tx.owner = p
    /\ st[p].i > Len(st[p].rooms)
    /\ db' = tx.db
    /\ tx' = NoTx
    /\ st' = [st EXCEPT ![p].pc = "done", ![p].result = "ok"]
    /\ UNCHANGED <<object_index, calls, minted, ex>>

(***************************************************************************)
(* exporter.py: get_lines, export_file, export_zip_all                     *)
(***************************************************************************)
\* Bound: the number of models the world-data app lists for export_zip_all.
MaxModels == 2

\* model_obj._meta.fields: the columns of a table in schema order.
FieldOrder(t) ==
    CASE t = "objects"       -> <<"id", "key", "typeclass", "name">>
      [] t = "world_areas"   -> <<"id", "key", "name", "background", "width", "height">>
      [] t = "world_rooms"   -> <<"id", "key", "location", "position">>
      [] t = "world_exits"   -> <<"id", "key", "location", "destination">>
      [] t = "world_objects" -> <<"id", "key", "location">>
      [] t = "world_npcs"    -> <<"id", "key", "location">>

\* str(record.serializable_value(field.name))
Str(f, v) == IF f \in IntFields THEN ToString(v) ELSE v

\* model_obj.objects.all(): the rows in primary-key order.
RECURSIVE AllRows(_)
AllRows(rows) ==
    IF rows = {} THEN <<>>
    ELSE LET last == CHOOSE r \in rows : \A q \in rows : q.id <= r.id
         IN  Append(AllRows(rows \ {last}), last)

\* Faulty variant of get_lines: a row's values come out in reverse order.
get_lines_reversed(d, name) ==
    LET fields == FieldOrder(name)
        all    == AllRows(d[name])
        n      == Len(fields)
    IN  <<fields>> \o
        [k \in 1..Len(all) |->
            [c \in 1..n |-> Str(fields[n + 1 - c], all[k][fields[n + 1 - c]])]]

\* get_lines(name): the header, then one line per record.
get_lines(d, name) ==
    LET fields == FieldOrder(name)
        all    == AllRows(d[name])
    IN  <<fields>> \o
        [k \in 1..Len(all) |->
            [c \in 1..Len(fields) |-> Str(fields[c], all[k][fields[c]])]]

\* The integers a numeric column of an imported file may spell.
IntIn == 0..9

\* The importer's reading of one value: the integer a numeric column spells
\* (-1 when it spells none), the text itself otherwise.
Parse(f, v) ==
    IF f \notin IntFields THEN v
    ELSE IF \E n \in IntIn : ToString(n) = v
    THEN CHOOSE n \in IntIn : ToString(n) = v
    ELSE -1

\* The column of the header that carries field f.
ColumnOf(header, f) == CHOOSE c \in 1..Len(header) : header[c] = f

\* The importer: the header gives the column order; every further line
\* becomes a field-value mapping without the primary key and is stored as
\* an update of the record under its key, or as a new record.
RECURSIVE ImportRows(_, _, _, _)
ImportRows(t, lines, k, rows) ==
    IF k > Len(lines) THEN rows
    ELSE LET header == lines[1]
             values == [f \in {header[c] : c \in 1..Len(header)} \ {"id"} |->
                           Parse(f, lines[k][ColumnOf(header, f)])]
             found  == {r \in rows : r.key = values["key"]}
             form   == [table |-> t, values |-> values,
                        instance |-> IF found = {} THEN NoRec
                                     ELSE CHOOSE r \in found : TRUE]
         IN  ImportRows(t, lines, k + 1, FormSave(form, rows))

\* The file names export_file is called with.
FileNameIn == {"t.csv", "t.CSV", "t.xyz", "t"}

\* The file types a call names ("" for none given).
FileTypeIn == {"", "csv", "xyz"}

\* os.path.splitext(filename)[1].lower(), without its dot (lines 51-53).
ExtType(filename) ==
    CASE filename = "t.csv" -> "csv"
      [] filename = "t.CSV" -> "csv"
      [] filename = "t.xyz" -> "xyz"
      [] filename = "t"     -> ""

\* writers.get_writers(): the file types that have a writer.
WriterTypes == {"csv"}

\* Lines 55-60: whether a writer was found for file_type.
HasWriter(file_type) == \E w \in WriterTypes : file_type = w

\* export_file(filename, model_name, file_type) called on its own.
ExportFileCall ==
    /\ ex.pc = "idle"
    /\ calls < MaxCalls
    /\ calls' = calls + 1
    /\ \E fn \in FileNameIn, t \in Tables, ft \in FileTypeIn, fail \in BOOLEAN :
         LET file_type == IF ft = "" THEN ExtType(fn) ELSE ft
             call == [ExIdle EXCEPT !.op = "export_file", !.pc = "done",
                                    !.filename = fn, !.file_type = file_type,
                                    !.models = <<t>>]
         IN  IF ~HasWriter(file_type)
             THEN ex' = call
             ELSE IF fail
             THEN ex' = [call EXCEPT !.raised = "IOError"]
             ELSE ex' = [call EXCEPT !.written = TRUE, !.lines = get_lines(db, t)]
    /\ UNCHANGED <<db, object_index, tx, st, minted>>

\* Lines 76-81: the default file type; mktemp() names a file and creates none.
ZipCall ==
    /\ ex.pc = "idle"
    /\ calls < MaxCalls
    /\ calls' = calls + 1
    /\ \E ft \in FileTypeIn, n \in 0..MaxModels :
         ex' = [ExIdle EXCEPT !.op = "export_zip_all", !.pc = "open",
                              !.file_type = IF ft = "" THEN "csv" ELSE ft,
                              !.models = SubSeq(TableOrder, 1, n)]
    /\ UNCHANGED <<db, object_index, tx, st, minted>>

\* Line 84: the archive is opened for writing, or opening it fails.
ZipOpen ==
    /\ ex.pc = "open"
    /\ \E fail \in BOOLEAN :
         ex' = IF fail
               THEN [ex EXCEPT !.pc = "finally", !.pending = "IOError"]
               ELSE [ex EXCEPT !.pc = "export", !.archive_open = TRUE, !.m = 1]
    /\ UNCHANGED <<db, object_index, tx, st, calls, minted>>

\* Line 90: export_file(temp, model_name, file_type).  Without a writer it
\* prints and returns; with one it writes the temporary file, or fails.
ZipExport ==
    /\ ex.pc = "export"
    /\ ex.m <= Len(ex.models)
    /\ \E fail \in BOOLEAN, made \in BOOLEAN :
         ex' = IF ~HasWriter(ex.file_type)
               THEN [ex EXCEPT !.pc = "write"]
               ELSE IF fail
               THEN [ex EXCEPT !.pc = "finally", !.pending = "IOError",
                               !.temp_exists = @ \/ made]
               ELSE [ex EXCEPT !.pc = "write", !.temp_exists = TRUE,
                               !.temp_lines = get_lines(db, ex.models[ex.m])]
    /\ UNCHANGED <<db, object_index, tx, st, calls, minted>>

\* Lines 91-92: archive.write(temp, filename); a temporary file that does
\* not exist cannot be read.
ZipWrite ==
    /\ ex.pc = "write"
    /\ \E fail \in BOOLEAN :
         ex' = IF ~ex.temp_exists
               THEN [ex EXCEPT !.pc = "finally", !.pending = "OSError"]
               ELSE IF fail
               THEN [ex EXCEPT !.pc = "finally", !.pending = "IOError"]
               ELSE [ex EXCEPT !.pc = "export", !.m = @ + 1,
                               !.entries = Append(@,
                                   [name |-> ex.models[ex.m] \o "." \o ex.file_type,
                                    lines |-> ex.temp_lines])]
    /\ UNCHANGED <<db, object_index, tx, st, calls, minted>>

\* The loop of line 88 has no model left.
ZipEnd ==
    /\ ex.pc = "export"
    /\ ex.m > Len(ex.models)
    /\ ex' = [ex EXCEPT !.pc = "finally"]
    /\ UNCHANGED <<db, object_index, tx, st, calls, minted>>

\* Lines 93-94: os.remove(temp) on every path; removing a file that does
\* not exist raises, and that error is the one the caller gets.
ZipFinally ==
    /\ ex.pc = "finally"
    /\ ex' = IF ex.temp_exists
             THEN [ex EXCEPT !.pc = "done", !.temp_exists = FALSE,
                             !.raised = ex.pending]
             ELSE [ex EXCEPT !.pc = "done", !.raised = "OSError",
                             !.cleanup_raised = TRUE]
    /\ UNCHANGED <<db, object_index, tx, st, calls, minted>>

\* One table is exported, the output is imported (into the emptied table or
\* over the stored rows) and the table is exported again.
RoundTrip ==
    /\ ex.pc = "idle"
    /\ \A p \in Procs : st[p].pc = "idle"
    /\ calls < MaxCalls
    /\ calls' = calls + 1
    /\ \E t \in Tables, fresh \in BOOLEAN :
         LET first    == get_lines(db, t)
             imported == ImportRows(t, first, 2, IF fresh THEN {} ELSE db[t])
         IN  /\ db' = [db EXCEPT ![t] = imported]
             /\ ex' = [ExIdle EXCEPT !.op = "round_trip", !.pc = "done",
                                     !.models = <<t>>, !.rows = db[t],
                                     !.lines = first,
                                     !.again = get_lines(db', t)]
    /\ UNCHANGED <<object_index, tx, st, minted>>

\* The export call has returned or raised.
ExportReturn ==
    /\ ex.pc = "done"
    /\ ex' = ExIdle
    /\ UNCHANGED <<db, object_index, tx, st, calls, minted>>

(***************************************************************************)
(* Specifications                                                          *)
(***************************************************************************)
\* One editor process issuing any sequence of calls.
Next ==
    \E p \in {"p1"} :
        \/ SaveCall(p)
        \/ SaveForms(p)
        \/ SaveCheck(p)
        \/ SaveBegin(p)
        \/ SaveWrite(p)
        \/ SaveCommit(p)
        \/ DeleteCall(p)
        \/ DeleteBegin(p)
        \/ DeleteRecord(p)
        \/ DeleteCommit(p)
        \/ UpdateKeyCall(p)
        \/ UpdateKeyStmt(p)
        \/ UpdateKeyReturn(p)
        \/ Return(p)

Spec == Init /\ [][Next]_vars

\* The editor process with queries between its other calls.
QueryNext == Next \/ QueryCall("p1")

QuerySpec == Init /\ [][QueryNext]_vars

\* The exporter on the stored world data.
ExportNext ==
    \/ ExportFileCall
    \/ ZipCall
    \/ ZipOpen
    \/ ZipExport
    \/ ZipWrite
    \/ ZipEnd
    \/ ZipFinally
    \/ ExportReturn

ExportSpec == Init /\ [][ExportNext]_vars

\* The editor process saving map positions.
MapNext ==
    \E p \in {"p1"} :
        \/ MapCall(p)
        \/ MapBegin(p)
        \/ MapArea(p)
        \/ MapRoom(p)
        \/ MapCommit(p)
        \/ Return(p)

MapSpec == Init /\ [][MapNext]_vars

\* The codec on the tables the editor leaves behind: records deleted, records
\* added, map positions saved.
CodecNext ==
    \/ \E p \in {"p1"} :
          \/ SaveCallWith(p, {"k9"}, {"", "o1"})
          \/ SaveForms(p)
          \/ SaveCheck(p)
          \/ SaveBegin(p)
          \/ SaveWrite(p)
          \/ SaveCommit(p)
          \/ DeleteCall(p)
          \/ DeleteBegin(p)
          \/ DeleteRecord(p)
          \/ DeleteCommit(p)
          \/ MapCallWith(p, AreaIn, {<<>>, <<[key |-> "r1", position |-> <<1, 2>>]>>})
          \/ MapBegin(p)
          \/ MapArea(p)
          \/ MapRoom(p)
          \/ MapCommit(p)
          \/ Return(p)
    \/ RoundTrip
    \/ ExportReturn

CodecSpec == Init /\ [][CodecNext]_vars

\* Two processes, each creating entities without a supplied key.
ConcNext ==
    \E p \in Procs :
        \/ SaveCallWith(p, {Absent, ""}, {""})
        \/ SaveForms(p)
        \/ SaveCheck(p)
        \/ SaveBegin(p)
        \/ SaveWrite(p)
        \/ SaveCommit(p)
        \/ Return(p)

ConcSpec == Init /\ [][ConcNext]_vars

(***************************************************************************)
(* Properties                                                              *)
(***************************************************************************)
HasKey(rows, k) == \E r \in rows : r.key = k

\* The first table-group of the submission carries no key or an empty one.
NoKeySubmitted(c) ==
    /\ Len(c.submitted) > 0
    /\ \/ "key" \notin DOMAIN c.submitted[1].values
       \/ c.submitted[1].values["key"] = ""

\* The record the j-th form of call c was to write is stored.
Written(c, j) ==
    \E r \in db[c.forms[j].table] :
        \A f \in (DOMAIN c.forms[j].values) \cap Cols(c.forms[j].table) :
            r[f] = c.forms[j].values[f]

\* C1: a save in which some table-group fails validation ends with the
\* validation error and leaves every table as it was before the call.
C1_ValidateBeforeWrite ==
    \A p \in Procs :
        (st[p].op = "save" /\ st[p].invalid # 0) =>
            /\ st[p].pc = "done"
            /\ st[p].result = "invalid_form"
            /\ db = st[p].pre
            /\ tx = NoTx

\* C1 witness: the second of two groups is invalid, and the first, valid,
\* group would have changed the record stored in its table.
C1_Witness ==
    \E p \in Procs :
        /\ st[p].op = "save" /\ st[p].pc = "done" /\ st[p].result = "invalid_form"
        /\ Len(st[p].forms) = 2 /\ st[p].invalid = 2
        /\ st[p].forms[1].instance.id # 0
        /\ FormRecord(st[p].forms[1], db[st[p].forms[1].table]) # st[p].forms[1].instance

\* C2: when a save ends, either it succeeded and every table-group's record
\* is stored, or no table differs from its state before the call.
C2_AtomicWrite ==
    \A p \in Procs :
        (st[p].op = "save" /\ st[p].pc = "done") =>
            IF st[p].result = "ok"
            THEN \A j \in 1..Len(st[p].forms) : Written(st[p], j)
            ELSE db = st[p].pre

\* C2 witness: the write of the second form failed after the first form's
\* write had changed its table inside the transaction.
C2_Witness ==
    \E p \in Procs :
        /\ st[p].op = "save" /\ st[p].pc = "done"
        /\ st[p].result = "TransactionFailure" /\ st[p].failed = 2
        /\ LET f1 == st[p].forms[1]
           IN  FormSave(f1, st[p].pre[f1.table]) # st[p].pre[f1.table]

C4_Indivisible == \A p \in Procs : st[p].vis <= 1

\* C5: once a save that renames an existing entity to a submitted key has
\* committed, no cross-reference covered by the cascade policy still holds
\* the old key.
C5_RenameCascades ==
    \A p \in Procs :
        (/\ st[p].op = "save" /\ st[p].pc = "done" /\ st[p].result = "ok"
         /\ st[p].obj_key # "" /\ st[p].new_key # st[p].obj_key
         /\ ~NoKeySubmitted(st[p])
         /\ st[p].forms[1].instance.id # 0) =>
            \A k \in 1..Len(CascadeStmts(st[p].obj_typeclass)) :
                LET s == CascadeStmts(st[p].obj_typeclass)[k]
                IN  \A r \in db[s.table] : r[s.field] # st[p].obj_key

\* C6: every record a successful save wrote carries the same business key,
\* the effective key the save returned.
C6_OneKeyPerEntity ==
    \A p \in Procs :
        (st[p].op = "save" /\ st[p].pc = "done" /\ st[p].result = "ok") =>
            \A j \in 1..Len(st[p].forms) :
                /\ st[p].forms[j].values["key"] = st[p].new_key
                /\ HasKey(db[st[p].forms[j].table], st[p].new_key)

\* C7: a new entity saved without a key gets obj_typeclass_auto_index, index
\* taken from the counter, and every table-group is given that key; counted
\* from a fresh counter the n-th such key has index n - 1.
C7_SynthesizedKey ==
    /\ \A p \in Procs :
        (st[p].op = "save" /\ st[p].obj_key = "" /\ NoKeySubmitted(st[p])) =>
            /\ st[p].new_key =
                  st[p].obj_typeclass \o "_auto_" \o ToString(st[p].pre_index)
            /\ \A j \in 1..Len(st[p].tables) :
                  /\ "key" \in DOMAIN st[p].tables[j].values
                  /\ st[p].tables[j].values["key"] = st[p].new_key
                  /\ \A f \in DOMAIN st[p].submitted[j].values \ {"key"} :
                        st[p].tables[j].values[f] = st[p].submitted[j].values[f]
            /\ st[p].forms # <<>> =>
                  \A j \in 1..Len(st[p].forms) :
                      st[p].forms[j].values["key"] = st[p].new_key
    /\ \A n \in 1..Len(minted) :
            minted[n].key = minted[n].typeclass \o "_auto_" \o ToString(n - 1)

\* C7 witness: two successive keyless saves of WORLD_OBJECT have returned
\* WORLD_OBJECT_auto_0 and WORLD_OBJECT_auto_1, and both entities are stored.
C7_Witness ==
    /\ Len(minted) = 2
    /\ minted[1].key = "WORLD_OBJECT_auto_0"
    /\ minted[2].key = "WORLD_OBJECT_auto_1"
    /\ \E p \in Procs :
          /\ st[p].op = "save" /\ st[p].pc = "done" /\ st[p].result = "ok"
          /\ st[p].new_key = "WORLD_OBJECT_auto_1"
          /\ "key" \notin DOMAIN st[p].submitted[2].values
    /\ \A k \in {"WORLD_OBJECT_auto_0", "WORLD_OBJECT_auto_1"} :
          HasKey(db["objects"], k) /\ HasKey(db["world_objects"], k)

\* C8: a save of an existing entity whose first table-group has no key or
\* an empty one mints no key: the counter stays and the entity keeps its key.
C8_NoKeyForExisting ==
    \A p \in Procs :
        (st[p].op = "save" /\ st[p].obj_key # "" /\ NoKeySubmitted(st[p])) =>
            /\ object_index = st[p].pre_index
            /\ st[p].new_key = st[p].obj_key

\* The base typeclass a delete works under: the one given, else the stored one.
DeleteBase(c) ==
    IF c.obj_typeclass # "" THEN c.obj_typeclass
    ELSE get_record_by_key(c.pre, "objects", c.obj_key).typeclass

\* C9: after a delete has completed, no table of any candidate typeclass
\* under the base holds a row with the key, and all other rows are as before.
C9_DeleteEverywhere ==
    \A p \in Procs :
        (st[p].op = "delete" /\ st[p].pc = "done" /\ st[p].result = "ok") =>
            /\ \A tc \in get_group(DeleteBase(st[p])) :
                  \A j \in 1..Len(get_models(tc)) :
                      ~HasKey(db[get_models(tc)[j]], st[p].obj_key)
            /\ \A t \in Tables :
                  {r \in db[t] : r.key # st[p].obj_key} =
                      {r \in st[p].pre[t] : r.key # st[p].obj_key}

\* C9 witness: the deleted entity had rows in the tables of two different
\* subtypes, one of them left over from an earlier typeclass.
C9_Witness ==
    \E p \in Procs :
        /\ st[p].op = "delete" /\ st[p].pc = "done" /\ st[p].result = "ok"
        /\ HasKey(st[p].pre["objects"], st[p].obj_key)
        /\ Cardinality({t \in Tables \ {"objects"} :
                           HasKey(st[p].pre[t], st[p].obj_key)}) >= 2
        /\ \E r \in st[p].pre["world_rooms"] : r.key # st[p].obj_key

\* C10: a delete never raises for a key that some or all tables lack.
C10_DeleteNeverRaises ==
    \A p \in Procs :
        (st[p].op = "delete" /\ st[p].pc = "done") => st[p].result = "ok"

\* The rows of a table with every field of fs that equals old set to new.
Rewritten(rows, fs, old, new) ==
    {[f \in DOMAIN r |-> IF f \in fs /\ r[f] = old THEN new ELSE r[f]] : r \in rows}

\* C11: update_object_key for an area sets the location of every room located
\* at the old key to the new key, leaves the other rooms as they were, and
\* changes no other table.
C11_AreaCascade ==
    \A p \in Procs :
        (/\ st[p].op = "update_key" /\ st[p].pc = "done"
         /\ st[p].obj_typeclass = "AREA") =>
            /\ db["world_rooms"] =
                  Rewritten(st[p].pre["world_rooms"], {"location"},
                            st[p].old_key, st[p].new_key)
            /\ \A r \in st[p].pre["world_rooms"] :
                  r.location # st[p].old_key => r \in db["world_rooms"]
            /\ \A t \in Tables \ {"world_rooms"} : db[t] = st[p].pre[t]

\* C11 witness: an area was renamed with one room located in it and another
\* room located elsewhere.
C11_Witness ==
    \E p \in Procs :
        /\ st[p].op = "update_key" /\ st[p].pc = "done"
        /\ st[p].obj_typeclass = "AREA"
        /\ \E r \in st[p].pre["world_rooms"] : r.location = st[p].old_key
        /\ \E r \in st[p].pre["world_rooms"] : r.location # st[p].old_key
        /\ db["world_rooms"] # st[p].pre["world_rooms"]

\* C12: update_object_key for a room rewrites exactly exit.location,
\* exit.destination, world-object.location and NPC.location where they equal
\* the old key; nothing else changes, and for a typeclass that is neither an
\* area nor a room no table changes.
C12_RoomCascade ==
    \A p \in Procs :
        (st[p].op = "update_key" /\ st[p].pc = "done") =>
            LET old == st[p].old_key
                new == st[p].new_key
                pre == st[p].pre
            IN  /\ st[p].obj_typeclass = "ROOM" =>
                    /\ db["world_exits"] =
                          Rewritten(pre["world_exits"], {"location", "destination"}, old, new)
                    /\ db["world_objects"] =
                          Rewritten(pre["world_objects"], {"location"}, old, new)
                    /\ db["world_npcs"] =
                          Rewritten(pre["world_npcs"], {"location"}, old, new)
                    /\ \A t \in {"objects", "world_areas", "world_rooms"} : db[t] = pre[t]
                /\ st[p].obj_typeclass \notin {"AREA", "ROOM"} => db = pre

\* C12 witness: a room was renamed that an exit leaves from, an exit leads
\* to, and a world object and an NPC are located in.
C12_Witness ==
    \E p \in Procs :
        /\ st[p].op = "update_key" /\ st[p].pc = "done"
        /\ st[p].obj_typeclass = "ROOM"
        /\ \E r \in st[p].pre["world_exits"] : r.location = st[p].old_key
        /\ \E r \in st[p].pre["world_exits"] : r.destination = st[p].old_key
        /\ \E r \in st[p].pre["world_objects"] : r.location = st[p].old_key
        /\ \E r \in st[p].pre["world_npcs"] : r.location = st[p].old_key
        /\ \A r \in db["world_exits"] \cup db["world_objects"] \cup db["world_npcs"] :
              r.location # st[p].old_key /\ r.destination # st[p].old_key

\* C13: a query for a business key that no table holds fails with NotFound,
\* whether or not a typeclass is given.
C13_QuerySurfacesNotFound ==
    \A p \in Procs :
        (/\ st[p].op = "query" /\ st[p].pc = "done"
         /\ st[p].base_typeclass \in Types
         /\ st[p].obj_typeclass \in Types \cup {""}
         /\ st[p].obj_key # ""
         /\ \A t \in Tables : ~HasKey(db[t], st[p].obj_key)) =>
            st[p].result = "NotFound"

\* The typeclass a query resolves to, by the rule of the design document.
QueryResolved(c) ==
    IF c.obj_typeclass # "" THEN c.obj_typeclass
    ELSE IF c.obj_key # ""
    THEN (CHOOSE r \in db["objects"] : r.key = c.obj_key).typeclass
    ELSE c.base_typeclass

\* C14: a successful query returns one group per table of the resolved
\* typeclass, in order; the first group's typeclass field is the selector,
\* holding the resolved typeclass and offering exactly the candidates under
\* the base; no other field of any group is altered.
C14_QueryGroups ==
    \A p \in Procs :
        (st[p].op = "query" /\ st[p].pc = "done" /\ st[p].result = "ok") =>
            LET tc == QueryResolved(st[p])
                ms == get_models(tc)
                a  == st[p].answer
            IN  /\ Len(a) = Len(ms)
                /\ \A j \in 1..Len(ms) : a[j].table = ms[j]
                /\ a[1].fields["typeclass"].type = "Select"
                /\ a[1].fields["typeclass"].value = tc
                /\ {ch.key : ch \in a[1].fields["typeclass"].choices} =
                      {t \in Types : t = st[p].base_typeclass
                                     \/ st[p].base_typeclass = "OBJECT"}
                /\ \A j \in 1..Len(ms) :
                      \A f \in DOMAIN a[j].fields :
                          (j # 1 \/ f # "typeclass") =>
                              /\ a[j].fields[f].type # "Select"
                              /\ a[j].fields[f].choices = {}
                              /\ a[j].fields[f].has_value =
                                    (f = "id" \/ HasKey(db[ms[j]], st[p].obj_key))
                              /\ \A r \in db[ms[j]] :
                                    r.key = st[p].obj_key =>
                                        a[j].fields[f].value =
                                            IF f \in {"id", "width", "height"}
                                            THEN ToString(r[f]) ELSE r[f]

\* C14 witness: no typeclass was given, and the typeclass stored under the
\* key differs from the base and has two tables.
C14_Witness ==
    \E p \in Procs :
        /\ st[p].op = "query" /\ st[p].pc = "done" /\ st[p].result = "ok"
        /\ st[p].obj_typeclass = "" /\ st[p].obj_key # ""
        /\ st[p].base_typeclass = "OBJECT"
        /\ Len(st[p].answer) = 2
        /\ st[p].answer[1].fields["typeclass"].value = "ROOM"
        /\ st[p].answer[2].table = "world_rooms"
        /\ st[p].answer[2].fields["location"].has_value

\* C15: an export whose format has no writer fails with UnsupportedFormat,
\* and export_zip_all then neither opens the archive nor adds an entry.
C15_UnsupportedFormat ==
    (ex.op \in {"export_file", "export_zip_all"} /\ ex.file_type \notin {"csv"}) =>
        /\ ~ex.archive_open
        /\ ex.entries = <<>>
        /\ ex.pc = "done" => ex.raised = "UnsupportedFormat"

\* C16: when export_zip_all returns or raises, the temporary file does not
\* exist and the cleanup has not raised an error of its own.
C16_TempFileCleanup ==
    (ex.op = "export_zip_all" /\ ex.pc = "done") =>
        /\ ~ex.temp_exists
        /\ ~ex.cleanup_raised

\* C20: save_map_positions is all-or-nothing: nothing is stored before the
\* call ends, a failed call leaves the tables as they were, and a successful
\* one has set the area's fields and every listed room's position to "(x,y)"
\* when the room came with more than one coordinate and to "" otherwise (the
\* last entry of a room listed twice decides).
C20_MapAllOrNothing ==
    \A p \in Procs :
        st[p].op = "map" =>
            /\ (st[p].pc # "done" \/ st[p].result # "ok") => db = st[p].pre
            /\ (st[p].pc = "done" /\ st[p].result = "ok") =>
                 /\ \E a \in db["world_areas"] :
                        /\ a.key = st[p].area.key
                        /\ a.background = st[p].area.background
                        /\ a.width = st[p].area.width
                        /\ a.height = st[p].area.height
                 /\ \A j \in 1..Len(st[p].rooms) :
                        LET room == st[p].rooms[j]
                        IN  (\A k \in (j + 1)..Len(st[p].rooms) :
                                 st[p].rooms[k].key # room.key) =>
                            \E r \in db["world_rooms"] :
                                /\ r.key = room.key
                                /\ r.position =
                                     IF Len(room.position) > 1
                                     THEN "(" \o ToString(room.position[1]) \o ","
                                              \o ToString(room.position[2]) \o ")"
                                     ELSE ""
                 /\ \A t \in Tables \ {"world_areas", "world_rooms"} :
                        db[t] = st[p].pre[t]

\* A call that had saved the area and its first room failed at the second.
C20_Witness ==
    /\ st["p1"].op = "map"
    /\ st["p1"].pc = "done"
    /\ st["p1"].result # "ok"
    /\ st["p1"].failed = 2
    /\ st["p1"].rooms[1].key = "r1"
    /\ Len(st["p1"].rooms[1].position) > 1

\* C18: a save that ends without success leaves the object-index counter
\* at the value it had when the call began.
C18_CounterInsideTx ==
    \A p \in Procs :
        (st[p].op = "save" /\ st[p].pc = "done" /\ st[p].result # "ok") =>
            object_index = st[p].pre_index

\* C19: a successful save under a non-empty current key updates in place:
\* in a table that held a record under that key the record keeps its primary
\* key, takes the submitted key, the row count stays and after a rename no
\* row is left under the old key; in a table that held none one row is added.
C19_UpdateInPlace ==
    \A p \in Procs :
        (st[p].op = "save" /\ st[p].pc = "done" /\ st[p].result = "ok"
            /\ st[p].obj_key # "") =>
            \A j \in 1..Len(st[p].tables) :
                LET t   == st[p].tables[j].table
                    k   == st[p].tables[j].values["key"]
                    old == {r \in st[p].pre[t] : r.key = st[p].obj_key}
                IN  IF old # {}
                    THEN /\ Cardinality(db[t]) = Cardinality(st[p].pre[t])
                         /\ \A r \in old : \E q \in db[t] : q.id = r.id /\ q.key = k
                         /\ k # st[p].obj_key => ~HasKey(db[t], st[p].obj_key)
                    ELSE /\ Cardinality(db[t]) = Cardinality(st[p].pre[t]) + 1
                         /\ \E q \in db[t] :
                              /\ q.key = k
                              /\ \A r \in st[p].pre[t] : r.id # q.id

\* A save renamed a stored record in one table and inserted into another.
C19_Witness ==
    /\ st["p1"].op = "save"
    /\ st["p1"].pc = "done"
    /\ st["p1"].result = "ok"
    /\ st["p1"].obj_key # ""
    /\ \E j \in 1..Len(st["p1"].tables) :
         /\ HasKey(st["p1"].pre[st["p1"].tables[j].table], st["p1"].obj_key)
         /\ st["p1"].tables[j].values["key"] # st["p1"].obj_key
    /\ \E j \in 1..Len(st["p1"].tables) :
         ~HasKey(st["p1"].pre[st["p1"].tables[j].table], st["p1"].obj_key)

====
